---- MODULE Spec2Model ----
(***************************************************************************)
(* StatefulEmitter (src/index.js): an EventEmitter with per-instance state *)
(* kept in the module-private table PrivateStates.                         *)
(*                                                                         *)
(* JavaScript objects are modelled as a heap: an address is an index into  *)
(* the sequence `heap`, address 0 stands for undefined/null.  The program  *)
(* is single threaded: code outside the class (callers, subclasses,        *)
(* listeners) runs either at top level (empty call stack) or inside a      *)
(* listener that emit() has called.  One action is one operation of        *)
(* outside code; a setState call runs, in that action, up to the first     *)
(* listener it calls, and goes on when the listener returns, so listeners  *)
(* can re-enter setState, throw, read the state or write to the objects    *)
(* they were handed.                                                       *)
(***************************************************************************)
EXTENDS Integers, Sequences, FiniteSets, TLC

\* ------------------------------------------------------------------ bounds
\* operations by outside code: constructions, listener registrations, setState
\* calls, reads of the state, writes to objects
MaxOps == 5

ListenerIds == 1..MaxOps    \* listener functions
Events == {"statechange", "change"}

Undefined == "undefined"    \* the value of a missing property
EmptyMap == [k \in {} |-> Undefined]

\* ------------------------------------------------------------ pure helpers
\* The base class getter; the constructor never reads it (it reads
\* this.initialState), so it is dead code.
initial_state == 0

\* What `this.initialState` evaluates to: undefined for the base class, a
\* fresh object literal for a subclass that defines the getter.
Classes ==
  {[def |-> FALSE, m |-> EmptyMap],
   [def |-> TRUE, m |-> ("0" :> "1" @@ "a" :> "1")]}

\* Arguments of setState: kind is the JavaScript type, props the own
\* enumerable string-keyed properties (ToObject of a string has its
\* characters under "0", "1", ...; null has none).
ObjArg(m) == [kind |-> "object", props |-> m]
NullArg == [kind |-> "null", props |-> EmptyMap]
StrArg == [kind |-> "string", props |-> ("0" :> "x")]
UpdateMaps ==
  {EmptyMap, ("0" :> "1"), ("0" :> "2" @@ "a" :> "2")}
Args == {ObjArg(m) : m \in UpdateMaps} \cup {NullArg, StrArg}

\* What outside code writes to an object it holds: obj["0"] = "2", delete obj["0"]
MutFields == {"0"}
MutVals == {"2", Undefined}

\* obj[key]
PropGet(m, k) == IF k \in DOMAIN m THEN m[k] ELSE Undefined

\* Object.assign({}, a, b) on the own enumerable properties of a and b
ObjectAssignReplace(a, b) == b
ObjectAssign(a, b) ==
  [k \in (DOMAIN a) \cup (DOMAIN b) |-> IF k \in DOMAIN b THEN b[k] ELSE a[k]]

\* Object.keys(value).length
ObjectKeysLen(value) == Cardinality(DOMAIN value.props)

\* String(i): the property names `for (key in array)` enumerates are the
\* array's indices as strings
IndexName(i) == CASE i = 0 -> "0" [] i = 1 -> "1" [] i = 2 -> "2" [] OTHER -> "3"

\* ------------------------------------------------------------------- state
VARIABLES
  id,         \* PrivateStates.id
  states,     \* PrivateStates.states: instance id -> address (0: undefined)
  heap,       \* address -> own properties of the object
  listeners,  \* instance id -> event -> listeners in registration order
  stack,      \* call stack of setState frames, innermost last
  calls,      \* history: one record per setState call
  deliveries, \* history: one record per listener invocation
  copies,     \* addresses returned by the state getter, oldest first
  classOf,    \* history: the class each instance was constructed from
  stored,     \* history: the properties last stored for each instance
  muts,       \* writes done by outside code
  waits,      \* one record per wait() call: its promise and its timer
  last        \* the last operation

vars ==
  <<id, states, heap, listeners, stack, calls, deliveries, copies, classOf, stored,
    muts, waits, last>>

Top == stack[Len(stack)]

\* Code outside the class runs at top level or inside a listener.
OutsideCodeBlocked ==
  /\ IF stack = <<>> THEN TRUE ELSE Top.pc = "handler"
  /\ \A w \in 1..Len(waits) : waits[w].promise # "pending"
OutsideCode == IF stack = <<>> THEN TRUE ELSE Top.pc = "handler"

Instances == 1..id

\* The getter's result as a value: the properties a read of instance i shows
\* (EmptyMap when the getter returns undefined, see Initialized).
Initialized(i) == states[i] # 0
Content(st, h, i) == IF st[i] = 0 THEN EmptyMap ELSE h[st[i]]
ReadContent(i) == Content(states, heap, i)

Init ==
  /\ id = 0
  /\ states = <<>>
  /\ heap = <<>>
  /\ listeners = <<>>
  /\ stack = <<>>
  /\ calls = <<>>
  /\ deliveries = <<>>
  /\ copies = <<>>
  /\ classOf = <<>>
  /\ stored = <<>>
  /\ muts = 0
  /\ waits = <<>>
  /\ last = [op |-> "init", inst |-> 0, ref |-> 0]

Subscriptions ==
  LET RECURSIVE Count(_)
      Count(i) == IF i = 0 THEN 0
                  ELSE Len(listeners[i]["statechange"]) + Len(listeners[i]["change"])
                       + Count(i - 1)
  IN Count(id)

\* Operations outside code has done so far.
Ops == id + Subscriptions + Len(calls) + Len(copies) + muts + Len(waits)

\* Listener functions are named in the order of their registration.
NextListener == Subscriptions + 1

\* The value the constructor reads as this.initialState, for an instance of
\* class c.
ConstructorInitialBase(c) == [def |-> FALSE, m |-> EmptyMap]
ConstructorInitial(c) == c

\* new StatefulEmitter() / new Subclass(): the id is taken, then the value of
\* this.initialState is stored under it as it is (no copy).  Instances are
\* constructed first, then listeners are registered, then the rest happens.
Construct(c) ==
  /\ stack = <<>>
  /\ Subscriptions = 0 /\ calls = <<>> /\ copies = <<>> /\ waits = <<>>
  /\ Ops < MaxOps
  /\ id' = id + 1
  /\ IF ConstructorInitial(c).def
       THEN /\ heap' = Append(heap, ConstructorInitial(c).m)
            /\ states' = Append(states, Len(heap) + 1)
       ELSE /\ heap' = heap
            /\ states' = Append(states, 0)
  /\ classOf' = Append(classOf, c)
  /\ stored' = Append(stored, ConstructorInitial(c).m)
  /\ listeners' = Append(listeners, [e \in Events |-> <<>>])
  /\ last' = [op |-> "construct", inst |-> id + 1, ref |-> states'[id + 1]]
  /\ UNCHANGED <<stack, calls, deliveries, copies, muts, waits>>

\* emitter.on(ev, l), inherited from EventEmitter: appends to the list.
On(i, ev, l) ==
  /\ stack = <<>>
  /\ calls = <<>> /\ copies = <<>> /\ waits = <<>>
  /\ Ops < MaxOps
  /\ l = NextListener
  /\ listeners' = [listeners EXCEPT ![i][ev] = Append(@, l)]
  /\ last' = [op |-> "on", inst |-> i, ref |-> 0]
  /\ UNCHANGED <<id, states, heap, stack, calls, deliveries, copies, classOf, stored, muts, waits>>

\* get state(): s ? Object.assign({}, s) : s.  The address the getter returns
\* and the heap after it.
GetterRefAlias(s, h) == s
GetterRefAbsent(s, h) == 0
GetterHeapEmpty(s, h) == IF s # 0 THEN Append(h, EmptyMap) ELSE h
GetterRef(s, h) == IF s # 0 THEN Len(h) + 1 ELSE s
GetterHeap(s, h) == IF s # 0 THEN Append(h, ObjectAssign(EmptyMap, h[s])) ELSE h

StateGet(i) ==
  /\ OutsideCode
  /\ Ops < MaxOps
  /\ copies' = Append(copies, GetterRef(states[i], heap))
  /\ heap' = GetterHeap(states[i], heap)
  /\ last' = [op |-> "read", inst |-> i, ref |-> GetterRef(states[i], heap)]
  /\ UNCHANGED <<id, states, listeners, stack, calls, deliveries, classOf, stored, muts, waits>>

\* ------------------------------------------------- setState, after the store
\* The rest of a setState call works on the stack and on the two histories; it
\* writes to no object (h is the heap, st are the states, after the store).
TopOf(m) == m.stack[Len(m.stack)]
OnStack(m) == {m.stack[j].call : j \in 1..Len(m.stack)}

\* The listeners emit(ev) of instance i calls: a copy of the instance's own
\* list for ev, taken when emit starts (EventEmitter.emit clones the array).
ListenersOfFirst(ls, i, ev) ==
  [j \in 1..(IF ls[i][ev] = <<>> THEN 0 ELSE 1) |-> [em |-> i, fn |-> ls[i][ev][j]]]
ListenersOf(ls, i, ev) ==
  [j \in 1..Len(ls[i][ev]) |-> [em |-> i, fn |-> ls[i][ev][j]]]

\* emit calls the next listener with the arguments of this emit.
Deliver(m, h) ==
  LET f == TopOf(m)
      t == f.ls[f.li]
      sc == f.ev = "statechange"
  IN [m EXCEPT
        !.deliveries = Append(@,
           [call |-> f.call, inst |-> f.inst, em |-> t.em, fn |-> t.fn, ev |-> f.ev,
            newRef |-> IF sc THEN f.newState ELSE 0,
            oldRef |-> IF sc THEN f.oldState ELSE 0,
            newSeen |-> IF sc THEN h[f.newState] ELSE EmptyMap,
            oldSeen |-> IF sc /\ f.oldState # 0 THEN h[f.oldState] ELSE EmptyMap,
            n |-> f.n, o |-> f.o, threw |-> FALSE]),
        !.stack[Len(m.stack)].pc = "handler"]

\* An exception leaves every frame on the stack: neither emit nor setState
\* catches anything.
Unwind(m, h, st) ==
  [m EXCEPT
     !.stack = <<>>,
     !.calls = [k \in 1..Len(m.calls) |->
                  IF k \in OnStack(m)
                    THEN [m.calls[k] EXCEPT !.status = "threw",
                                            !.after = Content(st, h, m.calls[k].inst)]
                    ELSE m.calls[k]]]

\* Object.keys(value) throws a TypeError for null; oldState[key] throws one
\* when oldState is undefined and the loop body runs.
LoopTypeError(f) ==
  \/ f.value.kind = "null"
  \/ f.ki < ObjectKeysLen(f.value) /\ f.oldState = 0

\* One iteration of `for (const key in Object.keys(value))`: key is the index
\* f.ki as a string.
LoopKey(f) == IndexName(f.ki)
LoopOld(f, h) == PropGet(h[f.oldState], LoopKey(f))
LoopNew(f, h) == PropGet(h[f.newState], LoopKey(f))

\* n !== o: emit("change", n, o) starts
LoopChange(m, h) ==
  LET f == TopOf(m)
  IN [m EXCEPT
        !.stack[Len(m.stack)] =
          [f EXCEPT !.ev = "change", !.n = LoopNew(f, h), !.o = LoopOld(f, h),
                    !.ki = @ + 1,
                    !.ls = ListenersOf(listeners, f.inst, "change"), !.li = 1],
        !.calls[f.call].raised =
          Append(@, [ev |-> "change", n |-> LoopNew(f, h), o |-> LoopOld(f, h)])]

\* n === o: next iteration
LoopSkip(m) == [m EXCEPT !.stack[Len(m.stack)].ki = @ + 1]

\* The loop is over: setState returns to its caller (a listener, or top level).
SetStateReturn(m, h, st) ==
  LET f == TopOf(m)
  IN [m EXCEPT
        !.stack = SubSeq(m.stack, 1, Len(m.stack) - 1),
        !.calls[f.call].status = "returned",
        !.calls[f.call].after = Content(st, h, f.inst)]

\* setState from where it stands up to the next listener call, its return or
\* its exception: emit calls the next listener; when emit has called them all
\* the for-in loop goes on at index ki.
RECURSIVE Run(_, _, _)
Run(m, h, st) ==
  IF m.stack = <<>> THEN m
  ELSE LET f == TopOf(m)
       IN IF f.pc = "handler" THEN m
          ELSE IF f.li <= Len(f.ls) THEN Deliver(m, h)
          ELSE IF LoopTypeError(f) THEN Unwind(m, h, st)
          ELSE IF f.ki < ObjectKeysLen(f.value)
            THEN IF LoopNew(f, h) # LoopOld(f, h)
                   THEN Run(LoopChange(m, h), h, st)
                   ELSE Run(LoopSkip(m), h, st)
          ELSE SetStateReturn(m, h, st)

Machine == [stack |-> stack, calls |-> calls, deliveries |-> deliveries]

\* The key of PrivateStates.states that setState of instance i writes, and
\* what it writes there.
StoreKeyShared(i) == 1
StoreKey(i) == i
StoredRefOld(newState, oldState) == oldState
StoredRef(newState, oldState) == newState

\* setState(value): capture oldState, merge into a new object, store it, emit
\* ("statechange", newState, oldState), then the loop.
SetState(i, v) ==
  /\ OutsideCode
  /\ Ops < MaxOps
  /\ LET oldState == states[i]
         newState == Len(heap) + 1
         oldProps == IF oldState = 0 THEN EmptyMap ELSE heap[oldState]
         h == Append(heap, ObjectAssign(ObjectAssign(EmptyMap, oldProps), v.props))
         st == [states EXCEPT ![StoreKey(i)] = StoredRef(newState, oldState)]
         subs == ListenersOf(listeners, i, "statechange")
         m == Run(
           [stack |-> Append(stack,
              [call |-> Len(calls) + 1, inst |-> i, value |-> v, oldState |-> oldState,
               newState |-> newState, pc |-> "emit", ev |-> "statechange",
               ls |-> subs, li |-> 1, ki |-> 0, n |-> Undefined, o |-> Undefined]),
            calls |-> Append(
              [k \in 1..Len(calls) |->
                 IF k \in OnStack(Machine)
                   THEN [calls[k] EXCEPT !.nested = TRUE] ELSE calls[k]],
              [inst |-> i, value |-> v, oldRef |-> oldState, newRef |-> newState,
               parent |-> IF stack = <<>> THEN 0 ELSE Top.call,
               hadState |-> oldState # 0, before |-> oldProps, subs |-> subs,
               raised |-> <<[ev |-> "statechange", n |-> Undefined, o |-> Undefined]>>,
               status |-> "running", after |-> EmptyMap, nested |-> FALSE]),
            deliveries |-> deliveries],
           h, st)
     IN /\ heap' = h
        /\ states' = st
        /\ stored' = [stored EXCEPT ![StoreKey(i)] = h[newState]]
        /\ stack' = m.stack
        /\ calls' = m.calls
        /\ deliveries' = m.deliveries
        /\ last' = [op |-> "setState", inst |-> i, ref |-> newState]
  /\ UNCHANGED <<id, listeners, copies, classOf, muts, waits>>

\* The listener returns: emit goes on with the next one.
HandlerReturn ==
  /\ stack # <<>>
  /\ Top.pc = "handler"
  /\ LET m == Run([Machine EXCEPT !.stack[Len(stack)].pc = "emit",
                                  !.stack[Len(stack)].li = @ + 1],
                  heap, states)
     IN /\ stack' = m.stack
        /\ calls' = m.calls
        /\ deliveries' = m.deliveries
  /\ last' = [op |-> "handlerReturn", inst |-> Top.inst, ref |-> 0]
  /\ UNCHANGED <<id, states, heap, listeners, copies, classOf, stored, muts, waits>>

\* The listener invocation in progress in the running setState call: the last
\* one that call made.
Current ==
  CHOOSE j \in 1..Len(deliveries) :
    /\ deliveries[j].call = Top.call
    /\ \A k \in (j + 1)..Len(deliveries) : deliveries[k].call # Top.call

\* The listener throws.
HandlerThrow ==
  /\ stack # <<>>
  /\ Top.pc = "handler"
  /\ LET m == Unwind([Machine EXCEPT !.deliveries[Current].threw = TRUE], heap, states)
     IN /\ stack' = m.stack
        /\ calls' = m.calls
        /\ deliveries' = m.deliveries
  /\ last' = [op |-> "handlerThrow", inst |-> Top.inst, ref |-> 0]
  /\ UNCHANGED <<id, states, heap, listeners, copies, classOf, stored, muts, waits>>

\* ------------------------------------------------------- writes from outside
\* Outside code writes to an object: obj[k] = v, or delete obj[k].
Write(m, k, v) ==
  IF v = Undefined THEN [x \in (DOMAIN m) \ {k} |-> m[x]]
  ELSE [x \in (DOMAIN m) \cup {k} |-> IF x = k THEN v ELSE m[x]]

\* The objects listeners were handed as statechange arguments.
Payloads ==
  {deliveries[j].newRef : j \in 1..Len(deliveries)}
    \cup {deliveries[j].oldRef : j \in 1..Len(deliveries)}

\* A reader writes to a copy the getter returned.
MutateCopy(r, k, v) ==
  /\ OutsideCode
  /\ Ops < MaxOps
  /\ r # 0
  /\ \E j \in 1..Len(copies) : copies[j] = r
  /\ Write(heap[r], k, v) # heap[r]
  /\ heap' = [heap EXCEPT ![r] = Write(@, k, v)]
  /\ muts' = muts + 1
  /\ last' = [op |-> "mutateCopy", inst |-> 0, ref |-> r]
  /\ UNCHANGED <<id, states, listeners, stack, calls, deliveries, copies, classOf, stored, waits>>

\* A listener writes to an object it received as a statechange argument (in
\* the listener, or later through a reference it kept).
MutatePayload(r, k, v) ==
  /\ OutsideCode
  /\ Ops < MaxOps
  /\ r # 0
  /\ r \in Payloads
  /\ Write(heap[r], k, v) # heap[r]
  /\ heap' = [heap EXCEPT ![r] = Write(@, k, v)]
  /\ muts' = muts + 1
  /\ last' = [op |-> "mutatePayload", inst |-> 0, ref |-> r]
  /\ UNCHANGED <<id, states, listeners, stack, calls, deliveries, copies, classOf, stored, waits>>

\* ---------------------------------------------------------------------- wait
\* wait(time): the promise executor runs at once and hands a one-shot timer to
\* the host (setTimeout); the promise is returned pending.  A timer of 0 ms is
\* due at once, a longer one when its time has passed.
Times == {"0ms", "60s"}
Unsettled == "unsettled"    \* a pending promise has no value yet
TimerDue(time) == time = "0ms"

Wait(i, time) ==
  /\ OutsideCode
  /\ Ops < MaxOps
  /\ waits' = Append(waits,
       [inst |-> i, due |-> TimerDue(time), promise |-> "pending", value |-> Unsettled,
        fired |-> 0])
  /\ last' = [op |-> "wait", inst |-> i, ref |-> 0]
  /\ UNCHANGED <<id, states, heap, listeners, stack, calls, deliveries, copies, classOf,
                 stored, muts>>

\* The time of timer w passes.
Elapse(w) ==
  /\ waits[w].promise = "pending"
  /\ ~waits[w].due
  /\ waits' = [waits EXCEPT ![w].due = TRUE]
  /\ last' = [op |-> "elapse", inst |-> waits[w].inst, ref |-> 0]
  /\ UNCHANGED <<id, states, heap, listeners, stack, calls, deliveries, copies, classOf,
                 stored, muts>>

\* What the timer callback does to the promise: resolve(), without an argument.
ResolveKeepPending(p) == p
Resolve(p) == [p EXCEPT !.promise = "resolved", !.value = Undefined]

\* The host runs the callback of a due timer, once, in a turn of its own (no
\* call is in progress): () => { resolve(); }
TimerFire(w) ==
  /\ stack = <<>>
  /\ waits[w].due
  /\ waits[w].fired = 0
  /\ waits' = [waits EXCEPT ![w] = [Resolve(@) EXCEPT !.fired = @ + 1]]
  /\ last' = [op |-> "timer", inst |-> waits[w].inst, ref |-> 0]
  /\ UNCHANGED <<id, states, heap, listeners, stack, calls, deliveries, copies, classOf,
                 stored, muts>>

Next ==
  \/ \E c \in Classes : Construct(c)
  \/ \E i \in Instances, ev \in Events, l \in ListenerIds : On(i, ev, l)
  \/ \E i \in Instances : StateGet(i)
  \/ \E i \in Instances, v \in Args : SetState(i, v)
  \/ HandlerReturn
  \/ HandlerThrow
  \/ \E r \in 1..Len(heap), k \in MutFields, v \in MutVals : MutateCopy(r, k, v)
  \/ \E r \in 1..Len(heap), k \in MutFields, v \in MutVals : MutatePayload(r, k, v)
  \/ \E i \in Instances, time \in Times : Wait(i, time)
  \/ \E w \in 1..Len(waits) : Elapse(w)
  \/ \E w \in 1..Len(waits) : TimerFire(w)

Spec == Init /\ [][Next]_vars

\* Scheduling: a listener that was called ends (it returns or throws); time
\* passes while a timer is armed; the host's event loop reaches its timers
\* phase whenever no call is in progress, so while timers are due again and
\* again with the stack empty, one of them is run.
Fairness ==
  /\ WF_vars(HandlerReturn \/ HandlerThrow)
  /\ WF_vars(\E w \in 1..Len(waits) : Elapse(w))
  /\ SF_vars(\E w \in 1..Len(waits) : TimerFire(w))

LiveSpec == Spec /\ Fairness

\* ------------------------------------------------------------------ claims
CallIds == 1..Len(calls)
Returned(c) == calls[c].status = "returned"
MappingArg(c) == calls[c].value.kind = "object"
P(c) == calls[c].value.props
S(c) == calls[c].before

\* The snapshot the specification expects call c to store: S overwritten by p.
ExpectedNew(c) ==
  [f \in (DOMAIN S(c)) \cup (DOMAIN P(c)) |->
     IF f \in DOMAIN P(c) THEN P(c)[f] ELSE S(c)[f]]

\* The notifications call c raised, by event.
Raised(c, ev) == {j \in 1..Len(calls[c].raised) : calls[c].raised[j].ev = ev}

\* The listeners call c delivered its statechange to, in order.
StatechangeReceivers(c) ==
  LET Mine(d) == d.call = c /\ d.ev = "statechange"
      ds == SelectSeq(deliveries, Mine)
  IN [j \in 1..Len(ds) |-> [em |-> ds[j].em, fn |-> ds[j].fn]]

\* C1: merge semantics.  When update(p) with a mapping p has returned on an
\* instance that had the snapshot S, and no listener called update during the
\* dispatch, a read shows every field of p with p's value and every field of S
\* not named in p with the value it had in S.
C1_MergeSemantics ==
  \A c \in CallIds :
    (Returned(c) /\ MappingArg(c) /\ calls[c].hadState /\ ~calls[c].nested) =>
      /\ \A f \in DOMAIN P(c) :
           f \in DOMAIN calls[c].after /\ calls[c].after[f] = P(c)[f]
      /\ \A f \in (DOMAIN S(c)) \ (DOMAIN P(c)) :
           f \in DOMAIN calls[c].after /\ calls[c].after[f] = S(c)[f]

\* C2: defensive copy on read.  Every read that returns a snapshot returns a
\* new object, and a write by a reader to a copy it was returned changes
\* neither what a read of any instance returns nor any other returned copy.
C2_DefensiveCopy ==
  [][ /\ (last'.op = "read" /\ last'.ref # 0) => last'.ref \notin 1..Len(heap)
      /\ last'.op = "mutateCopy" =>
           /\ \A i \in Instances : ReadContent(i)' = ReadContent(i)
           /\ \A j \in 1..Len(copies) :
                copies[j] \notin {0, last'.ref} => heap'[copies[j]] = heap[copies[j]]
    ]_vars

\* A reader has written to one of two copies it holds.
C2_Witness ==
  /\ last.op = "mutateCopy"
  /\ Len(copies) = 2
  /\ copies[1] # 0 /\ copies[2] # 0 /\ copies[1] # copies[2]

\* C3: the stored state is immutable through the API.  What a read of an
\* instance returns is what its constructor or its last update stored: no write
\* by outside code to an object the container handed out (a returned copy, a
\* statechange argument) changes it.
C3_StoredStateImmutable ==
  \A i \in Instances : ReadContent(i) = stored[i]

\* C4: every finished update raised exactly one statechange, delivered it to
\* all the statechange listeners the instance had, in registration order, and
\* every listener was handed the snapshot stored before the call as the old
\* one and that snapshot merged with p as the new one.
C4_ExactlyOneStatechange ==
  \A c \in CallIds :
    calls[c].status # "running" =>
      /\ Cardinality(Raised(c, "statechange")) = 1
      /\ StatechangeReceivers(c) = calls[c].subs
      /\ \A j \in 1..Len(deliveries) :
           (deliveries[j].call = c /\ deliveries[j].ev = "statechange") =>
             /\ deliveries[j].oldRef = calls[c].oldRef
             /\ deliveries[j].oldSeen = S(c)
             /\ deliveries[j].newSeen = ExpectedNew(c)

\* C5: field-change notification.  When update(p) with a mapping p has
\* returned on an instance that had a snapshot, one change notification was
\* raised for every field of p whose new value differs from its old one,
\* carrying (new value, old value), and none for the other fields.
ChangedFields(c) == {f \in DOMAIN P(c) : ExpectedNew(c)[f] # PropGet(S(c), f)}
C5_FieldChangeNotification ==
  \A c \in CallIds :
    (Returned(c) /\ MappingArg(c) /\ calls[c].hadState) =>
      /\ Cardinality(Raised(c, "change")) = Cardinality(ChangedFields(c))
      /\ \A f \in ChangedFields(c) : \E j \in Raised(c, "change") :
           /\ calls[c].raised[j].n = ExpectedNew(c)[f]
           /\ calls[c].raised[j].o = PropGet(S(c), f)

\* C6: no-op field suppression.  An update(p) in which every field of p has
\* the value it already had in the snapshot raises no change notification, and
\* exactly one statechange.
NoOp(c) == \A f \in DOMAIN P(c) : f \in DOMAIN S(c) /\ S(c)[f] = P(c)[f]
C6_NoOpSuppression ==
  \A c \in CallIds :
    (MappingArg(c) /\ calls[c].hadState /\ NoOp(c)) =>
      /\ Raised(c, "change") = {}
      /\ Cardinality(Raised(c, "statechange")) = 1

\* C7: independent instances.  A listener is only ever called for an update of
\* the instance it is registered on, and no step of an update of instance A
\* (the store, the emits, the loop, the return or the error) changes what is
\* stored for, or what a read returns of, another instance B.
UpdateSteps == {"setState", "handlerReturn", "handlerThrow"}
C7_IndependentInstances ==
  [][ /\ \A j \in 1..Len(deliveries') : deliveries'[j].em = deliveries'[j].inst
      /\ last'.op \in UpdateSteps =>
           \A b \in Instances \ {last'.inst} :
             /\ states'[b] = states[b]
             /\ ReadContent(b)' = ReadContent(b)
             /\ \A j \in (Len(deliveries) + 1)..Len(deliveries') : deliveries'[j].em # b
    ]_vars

\* An update of one instance has returned while another instance has a
\* snapshot and a statechange listener.
C7_Witness ==
  \E c \in CallIds : \E b \in Instances \ {calls[c].inst} :
    /\ Returned(c)
    /\ Initialized(b)
    /\ listeners[b]["statechange"] # <<>>
    /\ calls[c].after # S(c)

\* C8: initial read.  A read of an instance on which update was never called
\* returns a mapping equal to the initial state its class supplies, and
\* undefined when the class supplies none.
C8_InitialRead ==
  (last.op = "read" /\ \A c \in CallIds : calls[c].inst # last.inst) =>
    IF classOf[last.inst].def
      THEN last.ref # 0 /\ heap[last.ref] = classOf[last.inst].m
      ELSE last.ref = 0

\* A read of a fresh instance of a class with an initial state.
C8_Witness ==
  /\ last.op = "read"
  /\ classOf[last.inst].def
  /\ \A c \in CallIds : calls[c].inst # last.inst

\* C9: idempotent read.  A read changes nothing that is stored and no existing
\* object; the second of two consecutive reads of an instance returns
\* undefined if the first did, and otherwise a different object with the same
\* properties as the first, which are those of the stored snapshot.
C9_IdempotentRead ==
  [][ last'.op = "read" =>
        /\ states' = states /\ stored' = stored /\ listeners' = listeners
        /\ \A a \in 1..Len(heap) : heap'[a] = heap[a]
        /\ (last.op = "read" /\ last.inst = last'.inst) =>
             IF last.ref = 0 THEN last'.ref = 0
             ELSE /\ last'.ref # 0 /\ last'.ref # last.ref
                  /\ heap'[last'.ref] = heap'[last.ref]
                  /\ heap'[last'.ref] = heap'[states'[last'.inst]]
    ]_vars

\* Two reads in a row of an instance, after an update of it.
C9_Witness ==
  /\ last.op = "read"
  /\ Len(copies) = 2 /\ copies[1] # 0 /\ copies[2] = copies[1] + 1
  /\ muts = 0 /\ id = 1
  /\ \E c \in CallIds : Returned(c) /\ calls[c].inst = last.inst /\ calls[c].newRef + 1 = copies[1]

\* C10: invalid update argument.  An update whose argument is not a mapping
\* never returns normally, delivers no notification, and leaves the snapshot
\* as it was.
C10_InvalidArgumentRejected ==
  \A c \in CallIds :
    ~MappingArg(c) =>
      /\ ~Returned(c)
      /\ \A j \in 1..Len(deliveries) : deliveries[j].call # c
      /\ calls[c].status = "threw" => calls[c].after = S(c)

\* The listeners of the change event of the instance of call c.
ChangeListeners(c) == ListenersOf(listeners, calls[c].inst, "change")

\* A listener that call c invoked threw.
ThrewIn(c) == \E j \in 1..Len(deliveries) : deliveries[j].call = c /\ deliveries[j].threw

\* C11: a failing handler is isolated.  When a listener invoked by an update
\* threw and that update is over, the statechange was still delivered to every
\* statechange listener of the instance, and if the update changed a field of
\* a snapshot, a change notification was still raised.
C11_HandlerFailureIsolated ==
  \A c \in CallIds :
    (calls[c].status # "running" /\ ThrewIn(c)) =>
      /\ StatechangeReceivers(c) = calls[c].subs
      /\ (MappingArg(c) /\ calls[c].hadState /\ ChangedFields(c) # {}) =>
           Raised(c, "change") # {}

\* C12: first update on an uninitialized instance.  An update(p) with a
\* mapping p on an instance without a snapshot, in which no listener threw
\* and no listener called update, returns normally, leaves a snapshot equal
\* to p, and raises one change notification for every field of p.
C12_FirstUpdateUninitialized ==
  \A c \in CallIds :
    (MappingArg(c) /\ ~calls[c].hadState /\ calls[c].status # "running"
       /\ ~calls[c].nested /\ ~ThrewIn(c)) =>
      /\ Returned(c)
      /\ calls[c].after = P(c)
      /\ Cardinality(Raised(c, "change")) = Cardinality(DOMAIN P(c))

\* update was called on instance i.
Updated(i) == \E c \in CallIds : calls[c].inst = i

\* C13: two-state lifecycle.  No step takes an instance that has a snapshot
\* to having none; an instance without a snapshot is one whose class supplies
\* no initial state and on which update was never called; and a read of an
\* instance that has a snapshot returns a snapshot, never undefined.
C13_TwoStateLifecycle ==
  [][ /\ \A i \in Instances : states[i] # 0 => states'[i] # 0
      /\ \A i \in 1..id' : states'[i] = 0 => (~classOf'[i].def /\ ~Updated(i)')
      /\ (last'.op = "read" /\ states[last'.inst] # 0) => last'.ref # 0
    ]_vars

\* A read of an instance of the base class returned a snapshot after an update
\* of it that ended with an exception.
C13_Witness ==
  /\ last.op = "read" /\ last.ref # 0
  /\ ~classOf[last.inst].def
  /\ \E c \in CallIds : calls[c].inst = last.inst /\ calls[c].status = "threw"

WaitIds == 1..Len(waits)

\* C14: wait always resumes.  Every wait that was issued is eventually
\* resolved (again and again all the waits issued so far are resolved, and a
\* resolved one stays so); its promise is resolved by its timer's callback and by nothing
\* else, not before the timer is due, once, with the value undefined, and a
\* resolved promise never changes again (it is never rejected or cancelled).
C14_WaitAlwaysResumes ==
  /\ []<>(\A w \in WaitIds : waits[w].promise = "resolved")
  /\ [](\A w \in WaitIds :
          /\ waits[w].promise \in {"pending", "resolved"}
          /\ waits[w].promise = "resolved" <=> waits[w].fired = 1
          /\ waits[w].fired <= 1
          /\ waits[w].value = IF waits[w].promise = "resolved" THEN Undefined ELSE Unsettled)
  /\ [][\A w \in WaitIds :
          /\ waits[w].promise = "resolved" => waits'[w] = waits[w]
          /\ waits'[w].promise # waits[w].promise =>
               (waits[w].due /\ last'.op = "timer" /\ stack = <<>>)
       ]_vars

\* A wait for a time that had to pass has been resolved while another wait is
\* still pending.
C14_Witness ==
  \E w, x \in WaitIds :
    /\ w < x
    /\ waits[w].promise = "resolved" /\ last.op = "timer"
    /\ waits[x].promise = "pending" /\ ~waits[x].due

\* C15: wait does not interfere.  Issuing a wait, the passing of its time and
\* its resolution change no snapshot, no object and no listener list, and call
\* no listener; reads and updates leave every wait as it is; and a pending
\* wait holds up nothing: wherever outside code runs, it can read and update
\* any instance.
C15_WaitDoesNotInterfere ==
  /\ [][ /\ waits' # waits =>
              /\ states' = states /\ heap' = heap /\ stored' = stored
              /\ listeners' = listeners /\ deliveries' = deliveries
              /\ calls' = calls /\ stack' = stack
         /\ last'.op \in {"read", "setState", "handlerReturn", "handlerThrow"} =>
              waits' = waits
       ]_vars
  /\ [](\A i \in Instances :
          ((IF stack = <<>> THEN TRUE ELSE Top.pc = "handler") /\ Ops < MaxOps) =>
            /\ ENABLED StateGet(i)
            /\ ENABLED SetState(i, ObjArg(EmptyMap)))

\* An update of an instance, with a listener called, has returned while a wait
\* issued on that instance before its return is still pending.
C15_Witness ==
  /\ last.op = "handlerReturn" /\ stack = <<>>
  /\ \E c \in CallIds : calls[c].inst = last.inst /\ Returned(c)
  /\ \E w \in WaitIds : waits[w].inst = last.inst /\ waits[w].promise = "pending"

\* C16: atomic replace before notify.  A read of an instance from inside a
\* listener of an update of that instance, with no update called from a
\* listener of that update so far, finds the update's new snapshot stored: it
\* returns a new object with the properties of the newSnapshot object handed
\* to the statechange listeners, and what the update stored is the old
\* snapshot merged with p, whole.
C16_AtomicReplaceBeforeNotify ==
  [][ (/\ last'.op = "read"
       /\ stack # <<>>
       /\ last'.inst = Top.inst
       /\ ~calls[Top.call].nested) =>
        /\ states[Top.inst] = Top.newState
        /\ last'.ref # 0 /\ last'.ref # Top.newState
        /\ heap'[last'.ref] = heap[Top.newState]
        /\ stored[Top.inst] = ExpectedNew(Top.call)
    ]_vars

\* A change listener has read the state of its instance and found it
\* different from the old snapshot.
C16_Witness ==
  /\ last.op = "read"
  /\ stack # <<>>
  /\ Top.ev = "change" /\ Top.inst = last.inst /\ ~calls[Top.call].nested
  /\ heap[last.ref] # S(Top.call)

\* The updates called from inside a listener of call c.
Children(c) == {d \in CallIds : calls[d].parent = c}

\* Mapping a overwritten by mapping b.
Overwritten(a, b) ==
  [f \in (DOMAIN a) \cup (DOMAIN b) |-> IF f \in DOMAIN b THEN b[f] ELSE a[f]]

\* C17: re-entrant update.  When a listener of update(p) called update(q) on
\* the same instance, once, and both have returned: the nested update merged q
\* over the prior snapshot overwritten by p; all the listener calls of the
\* nested update were made in a row, none of the outer update's among them;
\* and when the outer update returned the snapshot was the prior snapshot
\* overwritten by p and then by q.
C17_ReentrantUpdate ==
  \A c, d \in CallIds :
    (/\ Children(c) = {d} /\ Children(d) = {}
     /\ calls[d].inst = calls[c].inst
     /\ MappingArg(c) /\ MappingArg(d)
     /\ Returned(c) /\ Returned(d)) =>
      /\ S(d) = ExpectedNew(c)
      /\ \A j, k, l \in 1..Len(deliveries) :
           (j < k /\ k < l /\ deliveries[j].call = d /\ deliveries[l].call = d) =>
             deliveries[k].call = d
      /\ calls[c].after = Overwritten(ExpectedNew(c), P(d))

\* The same, for runs in which outside code has written to no object.
C17_WithoutWrites == muts = 0 => C17_ReentrantUpdate

\* The listener functions call c invoked for event ev, in order.
Receivers(c, ev) ==
  LET Mine(d) == d.call = c /\ d.ev = ev
      ds == SelectSeq(deliveries, Mine)
  IN [j \in 1..Len(ds) |-> ds[j].fn]

\* Sequence r is sequence s repeated n times.
Repeated(r, s, n) ==
  /\ Len(r) = n * Len(s)
  /\ \A j \in 1..Len(r) : r[j] = s[((j - 1) % Len(s)) + 1]

\* C18: synchronous, ordered dispatch.  A listener is only ever called by an
\* update that is in progress, after that update's store; an update calls its
\* statechange listeners before any change listener; and an update that has
\* returned has called every statechange listener of its instance, in
\* registration order, and every change listener once for every change
\* notification it raised.
C18_SynchronousOrderedDispatch ==
  /\ [][\A j \in (Len(deliveries) + 1)..Len(deliveries') :
          LET d == deliveries'[j]
          IN /\ d.call <= Len(calls) => calls[d.call].status = "running"
             /\ calls'[d.call].newRef <= Len(heap')
             /\ ~calls'[d.call].nested => states'[d.inst] = calls'[d.call].newRef
       ]_vars
  /\ [](\A c \in CallIds :
          /\ \A j, k \in 1..Len(deliveries) :
               (j < k /\ deliveries[j].call = c /\ deliveries[k].call = c
                  /\ deliveries[k].ev = "statechange") =>
                 deliveries[j].ev = "statechange"
          /\ Returned(c) =>
               /\ Receivers(c, "statechange") = listeners[calls[c].inst]["statechange"]
               /\ Repeated(Receivers(c, "change"), listeners[calls[c].inst]["change"],
                           Cardinality(Raised(c, "change"))))

\* An update has returned after calling two statechange listeners and a change
\* listener.
C18_Witness ==
  \E c \in CallIds :
    /\ Returned(c)
    /\ Len(Receivers(c, "statechange")) = 2
    /\ Len(Receivers(c, "change")) = 1

\* C19: fields are never removed.  No construction, registration, read,
\* update (the store, the dispatch, a nested update, the return or the
\* exception) or wait takes a field away from the stored snapshot of an
\* instance: the field names a read shows after the step include those it
\* showed before.  (Writes by outside code to an object are no such step.)
C19_FieldsNeverRemoved ==
  [][ last'.op \notin {"mutateCopy", "mutatePayload"} =>
        \A i \in Instances : (DOMAIN ReadContent(i)) \subseteq (DOMAIN ReadContent(i)')
    ]_vars

\* An update called from a listener has returned on a snapshot that had fields
\* and has added one.
C19_Witness ==
  \E c \in CallIds :
    /\ Returned(c) /\ calls[c].parent # 0
    /\ DOMAIN S(c) # {}
    /\ DOMAIN S(c) # DOMAIN calls[c].after
    /\ (DOMAIN S(c)) \subseteq (DOMAIN calls[c].after)

\* The newSnapshot objects statechange listener fn of instance i was handed,
\* in the order of the calls.
PayloadsSeen(i, fn) ==
  LET Mine(d) == d.ev = "statechange" /\ d.em = i /\ d.fn = fn
      ds == SelectSeq(deliveries, Mine)
  IN [j \in 1..Len(ds) |-> ds[j].newRef]

\* C20: per-subscriber order matches store order.  When no update is in
\* progress and every update so far has returned, every statechange listener
\* of an instance was handed the snapshots in the order in which they were
\* stored (objects are numbered as they are created), and the last one it was
\* handed is the one stored now.
C20_PerSubscriberOrder ==
  (stack = <<>> /\ \A c \in CallIds : Returned(c)) =>
    \A i \in Instances : \A x \in 1..Len(listeners[i]["statechange"]) :
      LET seen == PayloadsSeen(i, listeners[i]["statechange"][x])
      IN /\ \A j, k \in 1..Len(seen) : j < k => seen[j] < seen[k]
         /\ seen # <<>> => seen[Len(seen)] = states[i]
====
